---- MODULE Spec2Model ----
(***************************************************************************)
(* A model of src/transcribe.py: the `cli` command of `ml transcribe       *)
(* openai`.  One run of the command is one behaviour: the pre-flight       *)
(* checks, the call of the external speech model, and then either the      *)
(* output handler or the console sentence grouping.                        *)
(*                                                                         *)
(* Strings are sequences of symbols.  A symbol is one character of         *)
(* interest (".", " ", a sentence terminator, "/") or a chunk of           *)
(* characters none of which is of interest ("out", "vtt", "a").  str.split, *)
(* str.strip, str.join and indexing are computed on these sequences.       *)
(* None and "" are both the empty sequence: the code only ever tests       *)
(* them for truth.                                                         *)
(***************************************************************************)
EXTENDS Integers, Sequences, FiniteSets, TLC

VARIABLES
    filename,        \* argument `filename`
    lang,            \* option --lang
    format,          \* option --format
    output,          \* option --output
    fs,              \* the paths that exist in the file system
    pc,              \* position of the run in cli
    existsCalls,     \* the paths os.path.exists was called with, in order
    diag,            \* the message given to sys.exit, <<>> when none
    exitCode,        \* process exit status, -1 while running
    transcribeCalls, \* calls of model.transcribe: [path, fp16, language]
    result,          \* result["segments"] of the transcription
    handlerCalls,    \* OutputHandler constructions: [format, dest]
    written,         \* the paths the output handler created
    err,             \* the exception that ended the run, "" when none
    text_buffer,     \* the console buffer of trimmed segment texts
    idx,             \* position of the console loop in result
    printed,         \* the lines printed by the console grouping
    consoleRuns      \* how many times the console grouping was entered

vars == <<filename, lang, format, output, fs, pc, existsCalls, diag, exitCode,
          transcribeCalls, result, handlerCalls, written, err, text_buffer,
          idx, printed, consoleRuns>>

(***************************************************************************)
(* Bounds and input domains                                                *)
(***************************************************************************)

\* the longest transcription result the model draws
MaxSegs == 3

None == <<>>

Filenames == { None, <<"audio", ".", "wav">>, <<"my", " ", "audio", ".", "wav">> }

Langs == { "None", "en" }

Formats == { None, <<"vtt">>, <<"txt">>, <<"mp3">> }

Outputs ==
    { None,
      <<"out", ".", "vtt">>,
      <<"out", ".", "mp3">>,
      <<"vtt">>,
      <<"out">>,
      <<"out", ".">>,
      <<".", "vtt">>,
      <<"vtt", ".", "mp3">>,
      <<"out", ".", "mp3", ".", "vtt">> }

\* segment["text"] values the external model may return
SegTexts ==
    { <<"a">>,
      <<" ", "b", ".">>,
      <<"a", ".", " ">>,
      <<"b", "U+FF1F">>,
      <<"a", ".", "b">>,
      <<" ">>,
      <<>> }

Segment(t) == [text |-> t]

RECURSIVE SeqsUpTo(_, _)
SeqsUpTo(S, n) ==
    IF n = 0 THEN { <<>> }
    ELSE LET shorter == SeqsUpTo(S, n - 1)
         IN  shorter \cup { Append(s, x) : s \in shorter, x \in S }

Results == SeqsUpTo({ Segment(t) : t \in SegTexts }, MaxSegs)

(***************************************************************************)
(* String helpers                                                          *)
(***************************************************************************)

Last(s) == s[Len(s)]

Whitespace == { " ", "\t", "\n" }

RECURSIVE LStrip(_)
LStrip(s) ==
    IF s # <<>> /\ Head(s) \in Whitespace THEN LStrip(Tail(s)) ELSE s

RECURSIVE RStrip(_)
RStrip(s) ==
    IF s # <<>> /\ Last(s) \in Whitespace
    THEN RStrip(SubSeq(s, 1, Len(s) - 1))
    ELSE s

StripNothing(s) == s

\* str.strip()
Strip(s) == RStrip(LStrip(s))

\* " ".join(parts)
RECURSIVE JoinSpace(_)
JoinSpace(parts) ==
    IF parts = <<>> THEN <<>>
    ELSE IF Len(parts) = 1 THEN parts[1]
    ELSE parts[1] \o <<" ">> \o JoinSpace(Tail(parts))

\* s.split(".")
RECURSIVE SplitDot(_)
SplitDot(s) ==
    IF \A i \in 1..Len(s) : s[i] # "."
    THEN << s >>
    ELSE LET i == CHOOSE k \in 1..Len(s) :
                      s[k] = "." /\ \A j \in 1..(k - 1) : s[j] # "."
         IN  << SubSeq(s, 1, i - 1) >> \o SplitDot(SubSeq(s, i + 1, Len(s)))

\* os.path.join(get_cmd_cwd(), name), for a relative name
JoinCwd(name) == <<"cwd", "/">> \o name

\* the symbols made of characters shlex.quote leaves alone: [\w@%+=:,./-]
SafeSyms ==
    { "cwd", "my", "audio", "wav", "out", "vtt", "mp3",
      "@", "%", "+", "=", ":", ",", ".", "/", "-" }

\* s.replace("'", "'\"'\"'")
RECURSIVE EscapeQuotes(_)
EscapeQuotes(s) ==
    IF s = <<>> THEN <<>>
    ELSE (IF Head(s) = "'" THEN <<"'", "\"", "'", "\"", "'">> ELSE <<Head(s)>>)
             \o EscapeQuotes(Tail(s))

\* shlex.quote(s)
Quote(s) ==
    IF s = <<>> THEN <<"''">>
    ELSE IF \A i \in 1..Len(s) : s[i] \in SafeSyms THEN s
    ELSE <<"'">> \o EscapeQuotes(s) \o <<"'">>

pkg == "openai"
cmd == "transcribe"

DiagPrefix == << pkg, " ", cmd, ": " >>

path == JoinCwd(filename)
output_path == JoinCwd(output)
input_path == Quote(path)

(***************************************************************************)
(* The state after the command line is parsed and the model is loaded      *)
(***************************************************************************)

Init ==
    /\ filename \in Filenames
    /\ lang \in Langs
    /\ format \in Formats
    /\ output \in Outputs
    /\ fs \in SUBSET ({ path } \cup (IF output # None THEN { output_path } ELSE {}))
    /\ pc = "check_filename"
    /\ existsCalls = <<>>
    /\ diag = <<>>
    /\ exitCode = -1
    /\ transcribeCalls = <<>>
    /\ result = <<>>
    /\ handlerCalls = <<>>
    /\ written = <<>>
    /\ err = ""
    /\ text_buffer = <<>>
    /\ idx = 1
    /\ printed = <<>>
    /\ consoleRuns = 0

\* sys.exit(message): the message goes to stderr, the status is 1
Exit(message) ==
    /\ pc' = "exited"
    /\ diag' = message
    /\ exitCode' = 1

CheckFilenameSkipped ==
    /\ pc = "check_filename"
    /\ pc' = "check_input"
    /\ UNCHANGED <<filename, lang, format, output, fs, existsCalls, diag,
                   exitCode, transcribeCalls, result, handlerCalls, written,
                   err, text_buffer, idx, printed, consoleRuns>>

CheckFilename ==
    /\ pc = "check_filename"
    /\ IF filename = None
       THEN Exit(DiagPrefix \o <<"A filename is required.">>)
       ELSE pc' = "check_input" /\ UNCHANGED <<diag, exitCode>>
    /\ UNCHANGED <<filename, lang, format, output, fs, existsCalls,
                   transcribeCalls, result, handlerCalls, written, err,
                   text_buffer, idx, printed, consoleRuns>>

CheckInputContinue ==
    /\ pc = "check_input"
    /\ existsCalls' = Append(existsCalls, path)
    /\ pc' = "check_output"
    /\ UNCHANGED <<filename, lang, format, output, fs, diag, exitCode,
                   transcribeCalls, result, handlerCalls, written, err,
                   text_buffer, idx, printed, consoleRuns>>

CheckInput ==
    /\ pc = "check_input"
    /\ existsCalls' = Append(existsCalls, path)
    /\ IF path \notin fs
       THEN Exit(DiagPrefix \o <<"File not found: ">> \o path)
       ELSE pc' = "check_output" /\ UNCHANGED <<diag, exitCode>>
    /\ UNCHANGED <<filename, lang, format, output, fs, transcribeCalls,
                   result, handlerCalls, written, err, text_buffer, idx,
                   printed, consoleRuns>>

CheckOutputNoProbe ==
    /\ pc = "check_output"
    /\ pc' = "transcribe"
    /\ UNCHANGED <<filename, lang, format, output, fs, existsCalls, diag,
                   exitCode, transcribeCalls, result, handlerCalls, written,
                   err, text_buffer, idx, printed, consoleRuns>>

CheckOutput ==
    /\ pc = "check_output"
    /\ IF output # None
       THEN /\ existsCalls' = Append(existsCalls, output_path)
            /\ IF output_path \in fs
               THEN Exit(DiagPrefix \o <<"Output file already exists: ">> \o output)
               ELSE pc' = "transcribe" /\ UNCHANGED <<diag, exitCode>>
       ELSE pc' = "transcribe" /\ UNCHANGED <<existsCalls, diag, exitCode>>
    /\ UNCHANGED <<filename, lang, format, output, fs, transcribeCalls,
                   result, handlerCalls, written, err, text_buffer, idx,
                   printed, consoleRuns>>

\* result = model.transcribe(input_path, fp16=False, language=lang): the
\* segments are whatever the external model returns
Transcribe ==
    /\ pc = "transcribe"
    /\ transcribeCalls' = Append(transcribeCalls,
           [path |-> input_path, fp16 |-> FALSE, language |-> lang])
    /\ \E r \in Results : result' = r
    /\ pc' = "dispatch"
    /\ UNCHANGED <<filename, lang, format, output, fs, existsCalls, diag,
                   exitCode, handlerCalls, written, err, text_buffer, idx,
                   printed, consoleRuns>>

UseHandlerFormatOnly == format # None

\* if format or output:
UseHandler == format # None \/ output # None

OutputFormatFirstPiece ==
    IF format # None THEN format ELSE Head(SplitDot(output))

OutputFormatExtensionFirst ==
    IF output # None THEN Last(SplitDot(output)) ELSE format

\* output_format = format if format else output.split(".")[-1]
output_format ==
    IF format # None THEN format ELSE Last(SplitDot(output))

\* the destination given to OutputHandler
Destination == IF output # None THEN output_path ELSE None

SupportedFormats == { <<"txt">>, <<"json">>, <<"srt">>, <<"tsv">>, <<"vtt">> }

\* OutputHandler(output_format, destination).write(result)
HandlerWrite ==
    /\ pc = "dispatch"
    /\ UseHandler
    /\ handlerCalls' = Append(handlerCalls,
           [format |-> output_format, dest |-> Destination])
    /\ IF output_format \notin SupportedFormats
       THEN /\ pc' = "raised"
            /\ err' = "UnsupportedFormatError"
            /\ UNCHANGED <<fs, written>>
       ELSE IF Destination = None
       THEN /\ pc' = "done"
            /\ UNCHANGED <<fs, written, err>>
       ELSE \/ /\ pc' = "done"
               /\ fs' = fs \cup { Destination }
               /\ written' = Append(written, Destination)
               /\ UNCHANGED err
            \/ /\ pc' = "raised"
               /\ err' = "IOError"
               /\ UNCHANGED <<fs, written>>
    /\ UNCHANGED <<filename, lang, format, output, existsCalls, diag,
                   exitCode, transcribeCalls, result, text_buffer, idx,
                   printed, consoleRuns>>

\* else: text_buffer = []
ConsoleStart ==
    /\ pc = "dispatch"
    /\ ~UseHandler
    /\ text_buffer' = <<>>
    /\ idx' = 1
    /\ consoleRuns' = consoleRuns + 1
    /\ pc' = "loop"
    /\ UNCHANGED <<filename, lang, format, output, fs, existsCalls, diag,
                   exitCode, transcribeCalls, result, handlerCalls, written,
                   err, printed>>

TerminatorsLatinOnly == { ".", "?", "!" }

\* the full-width marks are written by their code points
Terminators == { ".", "?", "!", "U+3002", "U+FF1F", "U+FF01" }

LoopSegmentFlushOnError ==
    /\ pc = "loop"
    /\ idx <= Len(result)
    /\ LET text == Strip(result[idx].text)
           buf  == Append(text_buffer, text)
       IN  IF text = <<>>
           THEN /\ pc' = "raised"
                /\ err' = "IndexError"
                /\ text_buffer' = buf
                /\ printed' = Append(printed, JoinSpace(buf))
                /\ UNCHANGED idx
           ELSE /\ IF Last(text) \in Terminators
                   THEN /\ printed' = Append(printed, JoinSpace(buf))
                        /\ text_buffer' = <<>>
                   ELSE /\ text_buffer' = buf
                        /\ UNCHANGED printed
                /\ idx' = idx + 1
                /\ UNCHANGED <<pc, err>>
    /\ UNCHANGED <<filename, lang, format, output, fs, existsCalls, diag,
                   exitCode, transcribeCalls, result, handlerCalls, written,
                   consoleRuns>>

\* one pass of: for segment in result["segments"]
LoopSegment ==
    /\ pc = "loop"
    /\ idx <= Len(result)
    /\ LET text == Strip(result[idx].text)
           buf  == Append(text_buffer, text)
       IN  IF text = <<>>
           THEN \* text[-1] of an empty string
                /\ pc' = "raised"
                /\ err' = "IndexError"
                /\ text_buffer' = buf
                /\ UNCHANGED <<printed, idx>>
           ELSE /\ IF Last(text) \in Terminators
                   THEN /\ printed' = Append(printed, JoinSpace(buf))
                        /\ text_buffer' = <<>>
                   ELSE /\ text_buffer' = buf
                        /\ UNCHANGED printed
                /\ idx' = idx + 1
                /\ UNCHANGED <<pc, err>>
    /\ UNCHANGED <<filename, lang, format, output, fs, existsCalls, diag,
                   exitCode, transcribeCalls, result, handlerCalls, written,
                   consoleRuns>>

TrailingFlushDropped ==
    /\ pc = "loop"
    /\ idx > Len(result)
    /\ pc' = "done"
    /\ UNCHANGED <<filename, lang, format, output, fs, existsCalls, diag,
                   exitCode, transcribeCalls, result, handlerCalls, written,
                   err, text_buffer, idx, printed, consoleRuns>>

\* after the loop: if text_buffer: print(" ".join(text_buffer))
TrailingFlush ==
    /\ pc = "loop"
    /\ idx > Len(result)
    /\ IF text_buffer # <<>>
       THEN printed' = Append(printed, JoinSpace(text_buffer))
       ELSE UNCHANGED printed
    /\ pc' = "done"
    /\ UNCHANGED <<filename, lang, format, output, fs, existsCalls, diag,
                   exitCode, transcribeCalls, result, handlerCalls, written,
                   err, text_buffer, idx, consoleRuns>>

Next ==
    \/ CheckFilename
    \/ CheckInput
    \/ CheckOutput
    \/ Transcribe
    \/ HandlerWrite
    \/ ConsoleStart
    \/ LoopSegment
    \/ TrailingFlush

Spec == Init /\ [][Next]_vars

(***************************************************************************)
(* What the claims are stated with.  These definitions are written from    *)
(* the claims' words and use none of the operators the actions use.        *)
(***************************************************************************)

SentenceMarks == { ".", "?", "!", "U+3002", "U+FF1F", "U+FF01" }

SetMax(S) == CHOOSE x \in S : \A y \in S : y <= x
SetMin(S) == CHOOSE x \in S : \A y \in S : x <= y

\* the text of segment i without its leading and trailing white space
Trimmed(i) ==
    LET s    == result[i].text
        keep == { k \in 1..Len(s) : s[k] \notin { " ", "\t", "\n" } }
    IN  IF keep = {} THEN <<>> ELSE SubSeq(s, SetMin(keep), SetMax(keep))

EndsSentence(i) ==
    Trimmed(i) # <<>> /\ Trimmed(i)[Len(Trimmed(i))] \in SentenceMarks

\* the trimmed texts of segments lo..hi, single spaces between them
RECURSIVE Spaced(_, _)
Spaced(lo, hi) ==
    IF lo > hi THEN <<>>
    ELSE IF lo = hi THEN Trimmed(hi)
    ELSE Spaced(lo, hi - 1) \o <<" ">> \o Trimmed(hi)

\* lines is the grouping of segments 1..n into runs that end at `ends`
GroupedAt(lines, ends) ==
    /\ Len(lines) = Cardinality(ends)
    /\ \A e \in ends :
          LET before == { d \in ends : d < e }
              from   == IF before = {} THEN 1 ELSE SetMax(before) + 1
          IN  lines[Cardinality(before) + 1] = Spaced(from, e)

FlushPoints(n) == { i \in 1..n : EndsSentence(i) }

AllNonEmpty == \A i \in 1..Len(result) : Trimmed(i) # <<>>

DotPlaces(s) == { k \in 1..Len(s) : s[k] = "." }

\* the text after the final "." of s; no text when s has no "."
AfterFinalDot(s) ==
    IF DotPlaces(s) = {} THEN <<>>
    ELSE SubSeq(s, SetMax(DotPlaces(s)) + 1, Len(s))

\* the text after the final "." of s; all of s when s has no "."
AfterFinalDotOrAll(s) ==
    IF DotPlaces(s) = {} THEN s
    ELSE SubSeq(s, SetMax(DotPlaces(s)) + 1, Len(s))

FiveFormats == { <<"txt">>, <<"json">>, <<"srt">>, <<"tsv">>, <<"vtt">> }

HasDiagForm(d) ==
    Len(d) > 4 /\ SubSeq(d, 1, 4) = <<"openai", " ", "transcribe", ": ">>

InConsole == consoleRuns > 0

\* C1: console sentence grouping.  With all trimmed texts non-empty, after
\* the loop has passed n segments the printed lines are exactly one per
\* segment among the n whose own trimmed text ends with a sentence mark,
\* each line being the trimmed texts since the previous flush joined by
\* single spaces, and the buffer holds the texts since the last flush.
C1_SentenceGrouping ==
    (InConsole /\ pc = "loop" /\ AllNonEmpty) =>
        LET n     == idx - 1
            ends  == FlushPoints(n)
            since == IF ends = {} THEN 1 ELSE SetMax(ends) + 1
        IN  /\ GroupedAt(printed, ends)
            /\ Len(text_buffer) = n - since + 1
            /\ \A k \in 1..Len(text_buffer) :
                   text_buffer[k] = Trimmed(since + k - 1)

C1_Witness ==
    /\ pc = "loop"
    /\ idx = 4
    /\ result = << Segment(<<"a">>), Segment(<<" ", "b", ".">>),
                   Segment(<<"b", "U+FF1F">>) >>
    /\ printed = << <<"a", " ", "b", ".">>, <<"b", "U+FF1F">> >>

\* C2: trailing flush and no loss.  When the console grouping completes
\* normally the printed lines are a split of the segments into consecutive
\* runs, each line one run's trimmed texts joined by single spaces: every
\* segment is in exactly one line, in order; no segments, no lines.
C2_NoLoss ==
    (InConsole /\ pc = "done") =>
        LET n == Len(result)
        IN  IF n = 0 THEN printed = <<>>
            ELSE \E cuts \in SUBSET (1..(n - 1)) :
                     GroupedAt(printed, cuts \cup { n })

C2_Witness ==
    /\ pc = "done"
    /\ result = << Segment(<<"a">>), Segment(<<"a", ".", "b">>) >>
    /\ printed = << <<"a", " ", "a", ".", "b">> >>

\* C3: pre-flight ordering.  The transcription, the output handler and the
\* console grouping are reached only with a filename, an existing input
\* path and, when an output is given, an output path that does not exist;
\* a failed check ends the run with `openai transcribe: <message>`, with
\* no transcription and no output.
C3_PreflightBeforeTranscribe ==
    /\ (transcribeCalls # <<>> \/ handlerCalls # <<>> \/ InConsole
            \/ printed # <<>> \/ written # <<>>) =>
          /\ filename # <<>>
          /\ (<<"cwd", "/">> \o filename) \in fs
          /\ (output # <<>> /\ written = <<>>) =>
                 (<<"cwd", "/">> \o output) \notin fs
    /\ (pc \notin { "check_filename", "check_input", "check_output" }
          /\ written = <<>>
          /\ \/ filename = <<>>
             \/ (<<"cwd", "/">> \o filename) \notin fs
             \/ output # <<>> /\ (<<"cwd", "/">> \o output) \in fs) =>
          /\ pc = "exited"
          /\ HasDiagForm(diag)
          /\ transcribeCalls = <<>> /\ handlerCalls = <<>>
          /\ printed = <<>> /\ ~InConsole
    /\ pc = "exited" =>
          /\ HasDiagForm(diag)
          /\ transcribeCalls = <<>> /\ handlerCalls = <<>>
          /\ printed = <<>> /\ written = <<>> /\ ~InConsole

C3_Witness ==
    /\ pc = "exited"
    /\ filename # <<>>
    /\ (<<"cwd", "/">> \o filename) \in fs
    /\ output = <<"out", ".", "vtt">>
    /\ (<<"cwd", "/">> \o output) \in fs
    /\ transcribeCalls = <<>>

\* C4 as stated: the handler is given the explicit format when there is
\* one, and otherwise the text after the final "." of the output filename.
C4_FormatSelection_Original ==
    handlerCalls # <<>> =>
        handlerCalls[1].format =
            IF format # <<>> THEN format ELSE AfterFinalDot(output)

\* C4, amended: the handler is given the explicit format when there is one,
\* also when the output filename has another extension; otherwise the text
\* after the final "." of the output filename, or the whole filename when
\* it has no "."; so output out.vtt alone selects vtt.
C4_FormatSelection ==
    /\ handlerCalls # <<>> =>
          handlerCalls[1].format =
              IF format # <<>> THEN format ELSE AfterFinalDotOrAll(output)
    /\ (handlerCalls # <<>> /\ format = <<>>
            /\ output = <<"out", ".", "vtt">>) =>
          handlerCalls[1].format = <<"vtt">>

C4_Witness ==
    /\ handlerCalls # <<>>
    /\ format = <<"txt">>
    /\ output = <<"out", ".", "vtt">>
    /\ handlerCalls[1].format = <<"txt">>

\* C5: the empty-segment edge case.  The console loop never passes a
\* segment whose trimmed text is empty: the run ends there with an
\* IndexError, and a console run that completes had no such segment.
C5_EmptySegmentFails ==
    InConsole =>
        /\ \A i \in 1..(idx - 1) : Trimmed(i) # <<>>
        /\ pc = "done" => AllNonEmpty
        /\ pc = "raised" =>
              /\ err = "IndexError"
              /\ idx \in 1..Len(result)
              /\ Trimmed(idx) = <<>>
        /\ pc \in { "loop", "done", "raised" }

C5_Witness ==
    /\ pc = "raised"
    /\ err = "IndexError"
    /\ idx = 2
    /\ result[2].text = <<" ">>

\* the format the claims C6 speak of, with the extension taken as stated
AskedFormat_Original ==
    IF format # <<>> THEN format ELSE AfterFinalDot(output)

AskedFormat ==
    IF format # <<>> THEN format ELSE AfterFinalDotOrAll(output)

HandlerReturned ==
    /\ transcribeCalls # <<>>
    /\ format # <<>> \/ output # <<>>
    /\ pc \notin { "transcribe", "dispatch" }

\* C6 as stated: when the explicit format or, without one, the output
\* filename's extension is not one of the five formats, the run fails with
\* UnsupportedFormatError.
C6_UnsupportedFormat_Original ==
    (HandlerReturned /\ AskedFormat_Original \notin FiveFormats) =>
        (pc = "raised" /\ err = "UnsupportedFormatError")

\* C6, amended: when the explicit format or, without one, the text after
\* the final "." of the output filename (the whole filename when it has no
\* ".") is not one of the five formats, the run fails with
\* UnsupportedFormatError and writes nothing; output out.mp3 alone fails.
C6_UnsupportedFormat ==
    /\ (HandlerReturned /\ AskedFormat \notin FiveFormats) =>
          (pc = "raised" /\ err = "UnsupportedFormatError" /\ written = <<>>)
    /\ (HandlerReturned /\ format = <<>> /\ output = <<"out", ".", "mp3">>) =>
          (pc = "raised" /\ err = "UnsupportedFormatError")

C6_Witness ==
    /\ format = <<>>
    /\ output = <<"out", ".", "mp3">>
    /\ pc = "raised"
    /\ err = "UnsupportedFormatError"

\* C7: an output file is written only after all validations passed.  A
\* step that writes a file is taken with a filename, an existing input
\* path, an output path that does not exist and a supported format, and
\* writes that output path; a step that ends the run on a failed
\* validation leaves the file system as it was.
C7_WriteAfterValidation ==
    [][ /\ (written' # written \/ fs' # fs) =>
              /\ filename # <<>>
              /\ (<<"cwd", "/">> \o filename) \in fs
              /\ output # <<>>
              /\ (<<"cwd", "/">> \o output) \notin fs
              /\ AskedFormat \in FiveFormats
              /\ written = <<>>
              /\ written' = << <<"cwd", "/">> \o output >>
              /\ fs' = fs \cup { <<"cwd", "/">> \o output }
        /\ (pc' = "exited" \/ err' = "UnsupportedFormatError") =>
              (fs' = fs /\ written' = <<>>)
      ]_vars

C7_Witness ==
    /\ pc = "done"
    /\ written = << <<"cwd", "/", "out", ".", "vtt">> >>
    /\ <<"cwd", "/", "out", ".", "vtt">> \in fs

\* C8: render-mode dispatch is exclusive and total.  After the dispatch
\* the output handler was invoked exactly once if a format or an output is
\* given (destination None with a format only, the output path under the
\* working directory with an output), the console grouping ran if and only
\* if neither is given, and never both.
C8_DispatchExclusive ==
    /\ Len(handlerCalls) + consoleRuns <= 1
    /\ (transcribeCalls # <<>> /\ pc \notin { "transcribe", "dispatch" }) =>
          IF format # <<>> \/ output # <<>>
          THEN /\ Len(handlerCalls) = 1
               /\ consoleRuns = 0
               /\ printed = <<>>
               /\ handlerCalls[1].dest =
                      IF output # <<>> THEN <<"cwd", "/">> \o output ELSE <<>>
          ELSE /\ handlerCalls = <<>>
               /\ consoleRuns = 1

C8_Witness ==
    /\ pc = "done"
    /\ format = <<"vtt">>
    /\ output = <<>>
    /\ handlerCalls = << [format |-> <<"vtt">>, dest |-> <<>>] >>

\* C9: diagnostic precedence.  The checks run in the order missing
\* filename, input not found, output exists, and the run stops at the
\* first that fails: the existence probes are a prefix of <<input path,
\* output path>>, a missing input gives the file-not-found message whatever
\* the output path, and the output path is never probed without an output.
C9_DiagnosticPrecedence ==
    LET inp == <<"cwd", "/">> \o filename
        out == <<"cwd", "/">> \o output
        pre == <<"openai", " ", "transcribe", ": ">>
    IN  /\ existsCalls \in { <<>>, <<inp>>, <<inp, out>> }
        /\ filename = <<>> =>
              /\ existsCalls = <<>>
              /\ pc # "check_filename" =>
                    /\ pc = "exited"
                    /\ diag = pre \o <<"A filename is required.">>
        /\ (filename # <<>> /\ inp \notin fs
                /\ pc \notin { "check_filename", "check_input" }) =>
              /\ pc = "exited"
              /\ diag = pre \o <<"File not found: ">> \o inp
              /\ existsCalls = <<inp>>
        /\ output = <<>> => Len(existsCalls) <= 1
        /\ (pc = "exited" /\ filename # <<>> /\ inp \in fs) =>
              /\ output # <<>> /\ out \in fs
              /\ diag = pre \o <<"Output file already exists: ">> \o output
              /\ existsCalls = <<inp, out>>
        /\ pc # "exited" => diag = <<>>

C9_Witness ==
    /\ pc = "exited"
    /\ filename # <<>>
    /\ (<<"cwd", "/">> \o filename) \notin fs
    /\ output # <<>>
    /\ (<<"cwd", "/">> \o output) \in fs
    /\ diag = <<"openai", " ", "transcribe", ": ", "File not found: ">>
                  \o (<<"cwd", "/">> \o filename)

\* C10: partial console output on failure.  When the console loop fails on
\* the empty-trimmed segment at idx, the printed lines are exactly the
\* flushes of the terminator-ending segments before idx; the texts buffered
\* since the last flush are in no line, and nothing runs afterwards.
C10_PartialOutputOnFailure ==
    (InConsole /\ pc = "raised") =>
        LET ends  == FlushPoints(idx - 1)
            since == IF ends = {} THEN 1 ELSE SetMax(ends) + 1
        IN  /\ GroupedAt(printed, ends)
            /\ Len(text_buffer) = idx - since + 1
            /\ ~ENABLED TrailingFlush
            /\ ~ENABLED LoopSegment

C10_Witness ==
    /\ pc = "raised"
    /\ err = "IndexError"
    /\ idx = 3
    /\ printed = << <<"b", ".">> >>
    /\ text_buffer = << <<"a">>, <<>> >>

====
